---- MODULE Spec2Model ----
(***************************************************************************)
(* Ad-insertion orchestration of SariskaIO/pocGoogleAddManager.            *)
(*                                                                         *)
(* The repository holds four variants of the same orchestration, one per   *)
(* file; the variable cls says which one a behaviour is about:             *)
(*   "Shared"  src/test_shared_clock.py  DecoupledAdCompositor             *)
(*   "Local"   src/pip_ads_play_back/hls_local_playback_demo.py            *)
(*             LocalAdCompositor                                           *)
(*   "Loop"    src/Hls_add_working_in_loop_add_video_Removed.py            *)
(*             DecoupledAdCompositor                                       *)
(*   "Overlay" src/HlsAndAddManager.py  HLSWithOverlay                     *)
(*                                                                         *)
(* Two threads act on the object: the GLib main loop (variable pc), which  *)
(* runs every handler to completion, and the ad pipeline's streaming       *)
(* thread (variable stream_pc), which runs the new-sample callback.        *)
(* Gst.Pipeline.set_state(NULL) joins the streaming thread, so a handler   *)
(* that stops the ad pipeline waits (pc = "stopping") for a callback that  *)
(* is under way.                                                           *)
(*                                                                         *)
(* The media engine is the environment.  Once the bus of an ad pipeline    *)
(* is watched it may hand _on_ad_message an EOS or ERROR at any turn of    *)
(* the main loop, also for a pipeline that was stopped since (the case     *)
(* _schedule_restart guards against), and the streaming thread may call    *)
(* the sample callback whenever the ad pipeline is PLAYING.                *)
(*                                                                         *)
(* Four specifications: Spec is the running object; FairSpec adds the      *)
(* scheduling the GLib main loop and the streaming thread give; VastSpec   *)
(* is _fetch_vast_media_url alone, on every document of up to MaxMedia     *)
(* MediaFile elements; CallSpec is the object after run() with _restart_ad *)
(* and _stop_ad_pipeline called directly, in any order, which is how the   *)
(* contract of each method on its own is examined.  The idle callback of a *)
(* tracking URL calls urlopen on the main loop, so the main thread is      *)
(* inside it (pc = "tracking") until the request has an outcome.           *)
(***************************************************************************)
EXTENDS Integers, Sequences, FiniteSets, TLC

\* ------------------------------------------------------------------ bounds
\* Largest configured ad pool.
MaxPool == 3
\* Number of _restart_ad calls a behaviour may hold (the code has no limit).
MaxCycles == 5
\* Largest retry_count a behaviour may reach (the code has no limit).
MaxRetry == 2
\* Largest number of MediaFile elements in a fetched document (VastSpec).
MaxMedia == 3

\* --------------------------------------------------------------- constants
None == "None"
\* Gst.CLOCK_TIME_NONE, the "no timestamp" value
CLOCK_TIME_NONE == -1
\* bitrate ceiling of _fetch_vast_media_url
BitrateCeiling == 5000

Classes == {"Shared", "Local", "Loop", "Overlay"}
\* the variants that own a rotating slot (comp_pad, restart timer)
SlotClasses == {"Shared", "Local", "Loop"}

\* self.comp_pad: no pad, or the request pad with its xpos/ypos properties
NoPad == [pad |-> FALSE, xpos |-> 0, ypos |-> 0]
\* compositor.request_pad_simple("sink_%u"): a new pad, xpos and ypos at the
\* GStreamer default 0
request_pad_simple == [pad |-> TRUE, xpos |-> 0, ypos |-> 0]

\* pos_pool / positions of the __main__ blocks
Corners == << <<920, 500>>, <<40, 500>>, <<40, 40>>, <<920, 40>> >>
\* ad_positions default of __init__
DefaultPositions == << <<920, 500>> >>
PositionLists == {Corners, DefaultPositions, << <<40, 40>>, <<920, 40>> >>}

PoolUrls == <<"A", "B", "C", "D", "E">>
Pool(k) == SubSeq(PoolUrls, 1, k)
\* ad_urls as __init__ leaves it: a list, possibly empty
Pools == {Pool(k) : k \in 0..MaxPool}

\* ------------------------------------------------- remote ad document (VAST)
\* int(s) on the attribute values and operator tokens used here; a string
\* outside the table is not an integer literal (ValueError)
IntTable ==
  ("0" :> 0) @@ ("3000" :> 3000) @@ ("4000" :> 4000) @@ ("4999" :> 4999)
  @@ ("5000" :> 5000) @@ ("6000" :> 6000) @@ ("100" :> 100) @@ ("200" :> 200)
\* the text of the i-th MediaFile element of a bounded document, as the XML
\* holds it (white space around the URL), and the URL in it
PaddedTexts == <<" m1 ", " m2 ", " m3 ", " m4 ", " m5 ">>
MediaUrls == <<"m1", "m2", "m3", "m4", "m5">>
\* str.strip() on the element texts used here
Strip(s) ==
  CASE s = " " -> ""
    [] s = " u4000 " -> "u4000"
    [] s = " i1 " -> "i1"
    [] \E i \in DOMAIN PaddedTexts : s = PaddedTexts[i] ->
         MediaUrls[CHOOSE i \in DOMAIN PaddedTexts : s = PaddedTexts[i]]
    [] OTHER -> s
\* Python truthiness of an optional string: None and "" are false
Truthy(s) == s # None /\ s # ""

\* mf.get("bitrate", 0) followed by int(): absent gives 0
BitrateRaises(mf) == mf.bitrate # "absent" /\ mf.bitrate \notin DOMAIN IntTable
BitrateOf(mf) == IF mf.bitrate = "absent" THEN 0 ELSE IntTable[mf.bitrate]

\* the Impression loop: every element with a truthy text, stripped
RECURSIVE ImpressionTexts(_)
ImpressionTexts(imps) ==
  IF imps = <<>> THEN <<>>
  ELSE IF Truthy(Head(imps))
       THEN <<Strip(Head(imps))>> \o ImpressionTexts(Tail(imps))
       ELSE ImpressionTexts(Tail(imps))

\* faulty variant: an element of the same bitrate replaces the one selected
SharedMediaStep_last_wins(acc, mf) ==
  IF acc.raised \/ mf.type # "video/mp4" THEN acc
  ELSE IF mf.text = None \/ BitrateRaises(mf) THEN [acc EXCEPT !.raised = TRUE]
  ELSE IF BitrateOf(mf) >= acc.bitrate /\ BitrateOf(mf) < BitrateCeiling
       THEN [acc EXCEPT !.bitrate = BitrateOf(mf), !.url = Strip(mf.text)]
       ELSE acc

\* one iteration of the MediaFile loop of test_shared_clock.py: the text is
\* stripped and the bitrate parsed for every video/mp4 element
SharedMediaStep(acc, mf) ==
  IF acc.raised \/ mf.type # "video/mp4" THEN acc
  ELSE IF mf.text = None \/ BitrateRaises(mf) THEN [acc EXCEPT !.raised = TRUE]
  ELSE IF BitrateOf(mf) > acc.bitrate /\ BitrateOf(mf) < BitrateCeiling
       THEN [acc EXCEPT !.bitrate = BitrateOf(mf), !.url = Strip(mf.text)]
       ELSE acc

\* one iteration of the MediaFile loop of hls_local_playback_demo.py: the text
\* is stripped only when the element is selected
LocalMediaStep(acc, mf) ==
  IF acc.raised \/ mf.type # "video/mp4" THEN acc
  ELSE IF BitrateRaises(mf) THEN [acc EXCEPT !.raised = TRUE]
  ELSE IF BitrateOf(mf) > acc.bitrate /\ BitrateOf(mf) < BitrateCeiling
       THEN IF mf.text = None THEN [acc EXCEPT !.raised = TRUE]
            ELSE [acc EXCEPT !.bitrate = BitrateOf(mf), !.url = Strip(mf.text)]
       ELSE acc

RECURSIVE MediaLoop(_, _, _)
MediaLoop(c, acc, media) ==
  IF media = <<>> THEN acc
  ELSE MediaLoop(c,
                 IF c = "Shared" THEN SharedMediaStep(acc, Head(media))
                                 ELSE LocalMediaStep(acc, Head(media)),
                 Tail(media))

\* best_url, best_bitrate = None, 0
BestInit == [url |-> None, bitrate |-> 0, raised |-> FALSE]

\* DecoupledAdCompositor._fetch_vast_media_url on the response resp:
\* the returned URL and the impression_urls it leaves behind
Shared_fetch_vast_media_url(resp) ==
  IF resp.status # "ok" THEN [url |-> None, impressions |-> <<>>]
  ELSE LET best == MediaLoop("Shared", BestInit, resp.media)
       IN  [url |-> IF ~best.raised /\ Truthy(best.url) THEN best.url ELSE None,
            impressions |-> ImpressionTexts(resp.impressions)]

\* LocalAdCompositor._fetch_vast_media_url on the response resp
Local_fetch_vast_media_url(resp) ==
  IF resp.status # "ok" THEN [url |-> None, impressions |-> <<>>]
  ELSE LET best == MediaLoop("Local", BestInit, resp.media)
       IN  [url |-> IF best.raised THEN None ELSE best.url,
            impressions |-> ImpressionTexts(resp.impressions)]

\* _fetch_vast_media_url has not been called yet
NotCalled == "not called"
\* the response of a cycle that fetches nothing
NoFetch == [status |-> "unreachable", impressions |-> <<>>, media |-> <<>>]
MediaFile(t, b, x) == [type |-> t, bitrate |-> b, text |-> x]
\* what urlopen(self.vast_url) and ET.fromstring can give in a cycle
VastResponses ==
  { NoFetch,
    [status |-> "ok", impressions |-> <<" i1 ">>,
     media |-> << MediaFile("video/mp4", "4000", " u4000 "),
                  MediaFile("video/mp4", "6000", "u6000"),
                  MediaFile("video/mp4", "3000", "u3000") >>],
    [status |-> "ok", impressions |-> <<"i2">>,
     media |-> << MediaFile("video/webm", "3000", "w3000"),
                  MediaFile("video/mp4", "5000", "u5000") >>] }

\* the response to a tag whose body is not XML: ET.fromstring raises
NotXml == [status |-> "malformed", impressions |-> <<>>, media |-> <<>>]
\* the bitrate attribute of a MediaFile element
MediaBitrates == {"absent", "0", "3000", "4000", "5000", "6000", "abc"}
\* the elements that may stand at place i of a bounded document: one of
\* another type, video/mp4 ones with a URL and every bitrate, and video/mp4
\* ones with no text or a blank text, under and over the ceiling
MediaFilesAt(i) ==
  {MediaFile("video/webm", "3000", PaddedTexts[i])}
  \cup {MediaFile("video/mp4", b, PaddedTexts[i]) : b \in MediaBitrates}
  \cup {MediaFile("video/mp4", b, None) : b \in {"4000", "6000"}}
  \cup {MediaFile("video/mp4", "4000", " ")}
RECURSIVE MediaLists(_)
MediaLists(n) ==
  IF n = 0 THEN {<<>>}
  ELSE {Append(m, mf) : m \in MediaLists(n - 1), mf \in MediaFilesAt(n)}
\* the responses _fetch_vast_media_url is examined on
Documents ==
  {NoFetch, NotXml}
  \cup {[status |-> "ok", impressions |-> <<" i1 ", " ", None>>, media |-> m] :
          m \in UNION {MediaLists(n) : n \in 0..MaxMedia}}

\* ------------------------------------------------------------------- state
VARIABLES
  cls,               \* which variant (file) the object is an instance of
  vast_url,          \* self.vast_url: None or the tag URL
  ad_urls,           \* self.ad_urls
  ad_positions,      \* self.ad_positions; <<(ad_x, ad_y)>> for Loop and Overlay
  ad_index,          \* self.ad_index
  pos_index,         \* self.pos_index
  ad_url,            \* self.ad_url
  main_pipeline,     \* self.main_pipeline (Overlay: self.pipeline) and its state
  ad_pipeline,       \* self.ad_pipeline (Overlay: self.ad_playbin) and its state
  appsrc,            \* self.appsrc
  comp_pad,          \* self.comp_pad
  ad_running,        \* self.ad_running
  restart_timer_id,  \* self.restart_timer_id
  retry_count,       \* self.retry_count
  impression_urls,   \* self.impression_urls
  manual_position,   \* self.manual_position (Local)
  running,           \* self.running (Overlay)
  pc,                \* where the main thread is
  stream_pc,         \* where the streaming thread is inside the sample callback
  live_pads,         \* compositor: request pads requested and not released
  timers,            \* GLib: timeout sources pending for _restart_ad
  bus_watch,         \* an ad pipeline bus has been connected to _on_ad_message
  idle_fires,        \* GLib: idle sources pending for _fire_tracking_url._fire
  relay,             \* appsrc: what the last sample callback did
  history,           \* one record per _restart_ad call, in order
  manual_xy,         \* the (x, y) of the last accepted update_ad_position
  commanded,         \* the (x, y) of the last `pos <x> <y>` line read
  teardown,          \* the steps the finally block of run() has done, in order
  tracked,           \* the outcome of the last tracking request
  vast_response,     \* what urlopen and ET.fromstring gave the last fetch
  vast_returned      \* what the last _fetch_vast_media_url call returned

config == <<cls, vast_url, ad_urls, ad_positions>>
cursors == <<ad_index, pos_index, ad_url, impression_urls>>
slot == <<comp_pad, live_pads, ad_running, ad_pipeline, bus_watch>>
timer == <<restart_timer_id, timers>>
operator == <<manual_position, manual_xy, commanded>>
resolver == <<vast_response, vast_returned>>
vars == <<config, cursors, slot, timer, operator, resolver, main_pipeline,
          appsrc, retry_count, running, pc, stream_pc, idle_fires, tracked, relay,
          history, teardown>>

\* the sample callback has not run yet
NoRelay ==
  [outcome |-> "none", flag |-> FALSE, port |-> FALSE, ret |-> "none",
   pts |-> CLOCK_TIME_NONE, dts |-> CLOCK_TIME_NONE, duration |-> CLOCK_TIME_NONE]

\* the state __init__ leaves, for every variant and configuration
Init ==
  /\ cls \in Classes
  /\ IF cls \in {"Shared", "Local"}
     THEN /\ vast_url \in {None, "tag"}
          /\ ad_urls \in IF vast_url = None THEN Pools ELSE {Pool(0), Pool(1)}
          /\ ad_positions \in PositionLists
          /\ ad_url = None
     ELSE /\ vast_url = None
          /\ ad_urls = <<>>
          /\ ad_positions = DefaultPositions
          /\ ad_url = "A"
  /\ ad_index = 0
  /\ pos_index = 0
  /\ main_pipeline = None
  /\ ad_pipeline = None
  /\ appsrc = None
  /\ comp_pad = NoPad
  /\ ad_running = FALSE
  /\ restart_timer_id = None
  /\ retry_count = 0
  /\ impression_urls = <<>>
  /\ manual_position = FALSE
  /\ running = TRUE
  /\ pc = "init"
  /\ stream_pc = "idle"
  /\ live_pads = 0
  /\ timers = 0
  /\ bus_watch = FALSE
  /\ idle_fires = <<>>
  /\ tracked = "none"
  /\ relay = NoRelay
  /\ history = <<>>
  /\ manual_xy = <<0, 0>>
  /\ commanded = <<>>
  /\ teardown = <<>>
  /\ vast_response = NoFetch
  /\ vast_returned = NotCalled

\* ------------------------------------------------------------ slot helpers
\* faulty variant of _schedule_restart: the pending check is missing
schedule_restart_unguarded(id, t) == [id |-> "timer", timers |-> t + 1]

\* _schedule_restart on the timer id `id` with `t` timeout sources pending:
\* a source is added only when no id is held
schedule_restart(id, t) ==
  IF id = None THEN [id |-> "timer", timers |-> t + 1]
               ELSE [id |-> id, timers |-> t]

\* faulty variant of _stop_ad_pipeline: the request pad is not released
stop_ad_pipeline_pad_kept ==
  /\ ad_running' = FALSE
  /\ UNCHANGED <<comp_pad, live_pads>>

\* faulty variant of _stop_ad_pipeline: the pad is released with the relay
\* flag left as it is
stop_ad_pipeline_flag_kept ==
  /\ ad_running' = ad_running
  /\ comp_pad' = NoPad
  /\ live_pads' = IF comp_pad.pad THEN live_pads - 1 ELSE live_pads

\* _stop_ad_pipeline up to the request pad: the relay flag is cleared, then
\* the held pad is unlinked and released
stop_ad_pipeline_pad ==
  /\ ad_running' = FALSE
  /\ comp_pad' = NoPad
  /\ live_pads' = IF comp_pad.pad THEN live_pads - 1 ELSE live_pads

\* the rest of an _on_ad_message that stops the slot: with no pipeline held
\* the timer is armed at once; with one, set_state(NULL) first joins the
\* streaming thread (pc = "stopping")
stop_and_schedule ==
  /\ stop_ad_pipeline_pad
  /\ IF ad_pipeline = None
     THEN /\ restart_timer_id' = schedule_restart(restart_timer_id, timers).id
          /\ timers' = schedule_restart(restart_timer_id, timers).timers
          /\ UNCHANGED <<ad_pipeline, pc>>
     ELSE /\ pc' = "stopping"
          /\ UNCHANGED <<ad_pipeline, timer>>

\* faulty variant: the pool cursor is not advanced
next_ad_index_stuck(i, n) == i

\* faulty variant: the pool cursor is advanced without wrapping
next_ad_index_unwrapped(i, n) == i + 1

\* self.ad_index = (self.ad_index + 1) % len(self.ad_urls)
next_ad_index(i, n) == (i + 1) % n

\* faulty variant: the position cursor skips an entry
next_pos_index_skips(i, n) == (i + 2) % n

\* self.pos_index = (self.pos_index + 1) % len(self.ad_positions)
next_pos_index(i, n) == (i + 1) % n

\* faulty variant: a manually placed cycle advances the position cursor too
Local_next_pos_index_always(manual, i, n) == (i + 1) % n

\* the position cursor after a started cycle of LocalAdCompositor: the manual
\* branch leaves it alone
Local_next_pos_index(manual, i, n) == IF manual THEN i ELSE next_pos_index(i, n)

\* one more record of the history
Attempt(url, started, pos, manual) ==
  [url |-> url, started |-> started, pos |-> pos, manual |-> manual]

\* faulty variant: the cycle is started without setting the relay flag
start_cycle_unflagged(x, y, t) ==
  /\ comp_pad' = [request_pad_simple EXCEPT !.xpos = x, !.ypos = y]
  /\ live_pads' = live_pads + 1
  /\ ad_pipeline' = "PLAYING"
  /\ bus_watch' = TRUE
  /\ ad_running' = ad_running
  /\ restart_timer_id' = None
  /\ timers' = t

\* the tail of _restart_ad once a URL is there: request a pad, place it at
\* (x, y), link it, create and start the ad pipeline
start_cycle(x, y, t) ==
  /\ comp_pad' = [request_pad_simple EXCEPT !.xpos = x, !.ypos = y]
  /\ live_pads' = live_pads + 1
  /\ ad_pipeline' = "PLAYING"
  /\ bus_watch' = TRUE
  /\ ad_running' = TRUE
  /\ restart_timer_id' = None
  /\ timers' = t

\* faulty variant: the early return does not schedule the retry
retry_later_unarmed(t) ==
  /\ restart_timer_id' = None
  /\ timers' = t
  /\ UNCHANGED <<slot, pos_index>>

\* faulty variant: the early return advances the position cursor
retry_later_skips_position(t) ==
  /\ restart_timer_id' = schedule_restart(None, t).id
  /\ timers' = schedule_restart(None, t).timers
  /\ pos_index' = (pos_index + 1) % Len(ad_positions)
  /\ UNCHANGED slot

\* the early return of _restart_ad: the timer id was cleared on entry, so
\* _schedule_restart arms a new source
retry_later(t) ==
  /\ restart_timer_id' = schedule_restart(None, t).id
  /\ timers' = schedule_restart(None, t).timers
  /\ UNCHANGED <<slot, pos_index>>

\* faulty variant: every impression pixel is fired twice
fire_impressions_twice(queue, urls) == queue \o urls \o urls

\* for url in self.impression_urls: self._fire_tracking_url(url), which adds
\* one idle source per URL to the sources `queue` already pending
fire_impressions(queue, urls) == queue \o urls

\* DecoupledAdCompositor._restart_ad of test_shared_clock.py, entered with
\* t other timeout sources pending
Shared_restart_ad(t) ==
  \E resp \in IF vast_url # None THEN VastResponses ELSE {NoFetch} :
    LET fetched == Shared_fetch_vast_media_url(resp)
        url == IF vast_url # None THEN fetched.url
               ELSE IF ad_urls # <<>> THEN ad_urls[ad_index + 1]
               ELSE ad_url
        pos == ad_positions[pos_index + 1]
    IN  /\ ad_url' = url
        /\ ad_index' = IF vast_url = None /\ ad_urls # <<>>
                       THEN next_ad_index(ad_index, Len(ad_urls)) ELSE ad_index
        /\ impression_urls' = IF vast_url # None THEN fetched.impressions
                              ELSE impression_urls
        /\ vast_response' = IF vast_url # None THEN resp ELSE vast_response
        /\ vast_returned' = IF vast_url # None THEN fetched.url ELSE vast_returned
        /\ UNCHANGED <<operator, tracked>>
        /\ IF (vast_url = None /\ ad_urls = <<>>) \/ ~Truthy(url)
           THEN /\ retry_later(t)
                /\ idle_fires' = idle_fires
                /\ history' = Append(history, Attempt(url, FALSE, <<0, 0>>, FALSE))
           ELSE /\ start_cycle(pos[1], pos[2], t)
                /\ pos_index' = next_pos_index(pos_index, Len(ad_positions))
                /\ idle_fires' = fire_impressions(idle_fires, impression_urls')
                /\ history' = Append(history, Attempt(url, TRUE, pos, FALSE))

\* LocalAdCompositor._restart_ad
Local_restart_ad(t) ==
  \E resp \in IF vast_url # None THEN VastResponses ELSE {NoFetch} :
    LET fetched == Local_fetch_vast_media_url(resp)
        url == IF vast_url # None THEN fetched.url
               ELSE IF ad_urls # <<>> THEN ad_urls[ad_index + 1]
               ELSE ad_url
        pad == request_pad_simple
        pos == IF manual_position THEN <<pad.xpos, pad.ypos>>
               ELSE ad_positions[pos_index + 1]
    IN  /\ ad_url' = url
        /\ ad_index' = IF vast_url = None /\ ad_urls # <<>>
                       THEN next_ad_index(ad_index, Len(ad_urls)) ELSE ad_index
        /\ impression_urls' = IF vast_url # None THEN fetched.impressions
                              ELSE impression_urls
        /\ vast_response' = IF vast_url # None THEN resp ELSE vast_response
        /\ vast_returned' = IF vast_url # None THEN fetched.url ELSE vast_returned
        /\ UNCHANGED <<operator, idle_fires, tracked>>
        /\ IF ~Truthy(url)
           THEN /\ retry_later(t)
                /\ history' = Append(history, Attempt(url, FALSE, <<0, 0>>, FALSE))
           ELSE /\ start_cycle(pos[1], pos[2], t)
                /\ pos_index' = Local_next_pos_index(manual_position, pos_index,
                                                     Len(ad_positions))
                /\ history' = Append(history, Attempt(url, TRUE, pos, manual_position))

\* DecoupledAdCompositor._restart_ad of
\* Hls_add_working_in_loop_add_video_Removed.py: one URL, one position
Loop_restart_ad(t) ==
  /\ start_cycle(ad_positions[1][1], ad_positions[1][2], t)
  /\ history' = Append(history, Attempt(ad_url, TRUE, ad_positions[1], FALSE))
  /\ UNCHANGED <<cursors, operator, resolver, idle_fires, tracked>>

restart_ad(t) ==
  /\ Len(history) < MaxCycles
  /\ CASE cls = "Shared" -> Shared_restart_ad(t)
       [] cls = "Local" -> Local_restart_ad(t)
       [] cls = "Loop" -> Loop_restart_ad(t)
       [] OTHER -> FALSE

\* ----------------------------------------------------------- main thread
FinallyPcs == {"finally_flag", "finally_main", "finally_ad"}
\* the first statement of the finally block of run()
FirstFinally == IF cls = "Local" THEN "finally_main" ELSE "finally_flag"

\* faulty variant: run() arms the cooldown timeout for the first cycle
\* instead of calling _restart_ad
run_waits ==
  /\ pc = "init"
  /\ cls \in SlotClasses
  /\ main_pipeline' = "PLAYING"
  /\ appsrc' = "ad_appsrc"
  /\ restart_timer_id' = schedule_restart(restart_timer_id, timers).id
  /\ timers' = schedule_restart(restart_timer_id, timers).timers
  /\ pc' = "loop"
  /\ UNCHANGED <<config, resolver, cursors, slot, operator, retry_count,
                 running, stream_pc, idle_fires, tracked, relay, history,
                 teardown>>

\* run() up to Gtk.main(): the main pipeline is built and set PLAYING and
\* the first cycle is started by a direct call of _restart_ad
run ==
  /\ pc = "init"
  /\ cls \in SlotClasses
  /\ main_pipeline' = "PLAYING"
  /\ appsrc' = "ad_appsrc"
  /\ restart_ad(timers)
  /\ pc' = "loop"
  /\ UNCHANGED <<config, retry_count, running, stream_pc, relay, teardown>>

\* HLSWithOverlay.run up to Gtk.main(): the ad playbin is started at once,
\* the main pipeline by a 200 ms timeout
Overlay_run ==
  /\ pc = "init"
  /\ cls = "Overlay"
  /\ main_pipeline' = "READY"
  /\ appsrc' = "ad_appsrc"
  /\ ad_pipeline' = "PLAYING"
  /\ bus_watch' = TRUE
  /\ pc' = "loop"
  /\ UNCHANGED <<config, resolver, cursors, comp_pad, live_pads, ad_running,
                 timer, operator, retry_count, running, stream_pc, idle_fires,
                 tracked, relay, history, teardown>>

\* the lambda of GLib.timeout_add(200, ...) in HLSWithOverlay.run
Overlay_start_main ==
  /\ pc = "loop"
  /\ cls = "Overlay"
  /\ main_pipeline = "READY"
  /\ main_pipeline' = "PLAYING"
  /\ UNCHANGED <<config, resolver, cursors, slot, timer, operator, appsrc,
                 retry_count, running, pc, stream_pc, idle_fires, tracked,
                 relay, history, teardown>>

\* the cooldown timeout fires: GLib calls _restart_ad, which returns False,
\* so the source is removed
timer_fires ==
  /\ pc = "loop"
  /\ timers > 0
  /\ restart_ad(timers - 1)
  /\ UNCHANGED <<config, main_pipeline, appsrc, retry_count, running, pc,
                 stream_pc, relay, teardown>>

AdMessageTypes == {"EOS", "ERROR", "STATE_CHANGED"}

\* faulty variant of _on_ad_message: an ad ERROR quits the main loop
Shared_on_ad_message_quits(type) ==
  IF type = "ERROR"
  THEN /\ pc' = FirstFinally
       /\ UNCHANGED <<retry_count, slot, timer>>
  ELSE UNCHANGED <<retry_count, slot, timer, pc>>

\* _on_ad_message of test_shared_clock.py and of
\* Hls_add_working_in_loop_add_video_Removed.py
Shared_on_ad_message(type) ==
  /\ type = "ERROR" => retry_count < MaxRetry
  /\ IF type \in {"EOS", "ERROR"}
     THEN /\ retry_count' = IF type = "ERROR" THEN retry_count + 1 ELSE retry_count
          /\ stop_and_schedule
          /\ UNCHANGED bus_watch
     ELSE UNCHANGED <<retry_count, slot, timer, pc>>

\* LocalAdCompositor._on_ad_message
Local_on_ad_message(type) ==
  /\ IF type \in {"EOS", "ERROR"}
     THEN /\ stop_and_schedule
          /\ UNCHANGED bus_watch
     ELSE UNCHANGED <<slot, timer, pc>>
  /\ UNCHANGED retry_count

\* on_ad_message of HLSWithOverlay._create_ad_playbin: EOS seeks the playbin
\* back to 0, ERROR is printed
Overlay_on_ad_message(type) ==
  UNCHANGED <<retry_count, slot, timer, pc>>

\* the bus watch of an ad pipeline delivers a message to the main loop
on_ad_message(type) ==
  /\ pc = "loop"
  /\ bus_watch
  /\ CASE cls \in {"Shared", "Loop"} -> Shared_on_ad_message(type)
       [] cls = "Local" -> Local_on_ad_message(type)
       [] OTHER -> Overlay_on_ad_message(type)
  /\ UNCHANGED <<config, resolver, cursors, operator, main_pipeline, appsrc,
                 running, stream_pc, idle_fires, tracked, relay, history,
                 teardown>>

\* faulty variant: the handler returns after _stop_ad_pipeline without
\* calling _schedule_restart
stop_ad_pipeline_done_unscheduled ==
  /\ pc = "stopping"
  /\ stream_pc = "idle"
  /\ ad_pipeline' = None
  /\ pc' = "loop"
  /\ UNCHANGED <<config, resolver, cursors, comp_pad, live_pads, ad_running,
                 bus_watch, timer, operator, main_pipeline, appsrc,
                 retry_count, running, stream_pc, idle_fires, tracked, relay,
                 history, teardown>>

\* set_state(NULL) of _stop_ad_pipeline returns once the streaming thread has
\* left the callback; the handle is dropped and the restart is scheduled
stop_ad_pipeline_done ==
  /\ pc = "stopping"
  /\ stream_pc = "idle"
  /\ ad_pipeline' = None
  /\ restart_timer_id' = schedule_restart(restart_timer_id, timers).id
  /\ timers' = schedule_restart(restart_timer_id, timers).timers
  /\ pc' = "loop"
  /\ UNCHANGED <<config, resolver, cursors, comp_pad, live_pads, ad_running,
                 bus_watch, operator, main_pipeline, appsrc, retry_count,
                 running, stream_pc, idle_fires, tracked, relay, history,
                 teardown>>

MainMessages ==
  { [type |-> "EOS", text |-> ""],
    [type |-> "ERROR", text |-> "Quit requested"],
    [type |-> "ERROR", text |-> "Internal data stream error"],
    [type |-> "WARNING", text |-> ""] }

\* faulty variant: only EOS quits, every ERROR is absorbed
main_quit_eos_only(msg) == msg.type = "EOS"

\* _on_main_message (Overlay: _on_message): does the handler call
\* Gtk.main_quit() on msg
main_quit(msg) ==
  \/ msg.type = "EOS"
  \/ /\ msg.type = "ERROR"
     /\ cls = "Overlay" \/ msg.text # "Quit requested"

\* the main pipeline's bus watch delivers a message to the main loop
on_main_message(msg) ==
  /\ pc = "loop"
  /\ main_pipeline = "PLAYING"
  /\ pc' = IF main_quit(msg) THEN FirstFinally ELSE pc
  /\ UNCHANGED <<config, resolver, cursors, slot, timer, operator,
                 main_pipeline, appsrc, retry_count, running, stream_pc,
                 idle_fires, tracked, relay, history, teardown>>

\* Ctrl+C while Gtk.main() runs: except KeyboardInterrupt: pass
keyboard_interrupt ==
  /\ pc = "loop"
  /\ pc' = FirstFinally
  /\ UNCHANGED <<config, resolver, cursors, slot, timer, operator,
                 main_pipeline, appsrc, retry_count, running, stream_pc,
                 idle_fires, tracked, relay, history, teardown>>

\* finally: self.ad_running = False (Overlay: self.running = False)
finally_flag ==
  /\ pc = "finally_flag"
  /\ IF cls = "Overlay"
     THEN running' = FALSE /\ ad_running' = ad_running
     ELSE ad_running' = FALSE /\ running' = running
  /\ pc' = IF cls = "Overlay" THEN "finally_ad" ELSE "finally_main"
  /\ teardown' = Append(teardown, "flag")
  /\ UNCHANGED <<config, resolver, cursors, comp_pad, live_pads, ad_pipeline,
                 bus_watch, timer, operator, main_pipeline, appsrc,
                 retry_count, stream_pc, idle_fires, tracked, relay, history>>

\* finally: self.main_pipeline.set_state(Gst.State.NULL)
finally_main ==
  /\ pc = "finally_main"
  /\ main_pipeline' = "NULL"
  /\ pc' = IF cls = "Overlay" THEN "done" ELSE "finally_ad"
  /\ teardown' = Append(teardown, "main")
  /\ UNCHANGED <<config, resolver, cursors, slot, timer, operator, appsrc,
                 retry_count, running, stream_pc, idle_fires, tracked, relay,
                 history>>

\* finally: self.ad_pipeline.set_state(Gst.State.NULL), which joins the
\* streaming thread; Shared and Local skip it when no pipeline is held, Loop
\* calls it on None and raises AttributeError
finally_ad ==
  /\ pc = "finally_ad"
  /\ IF ad_pipeline = None
     THEN /\ pc' = IF cls = "Loop" THEN "raised" ELSE "done"
          /\ UNCHANGED <<ad_pipeline, teardown>>
     ELSE /\ stream_pc = "idle"
          /\ ad_pipeline' = "NULL"
          /\ pc' = IF cls = "Overlay" THEN "finally_main" ELSE "done"
          /\ teardown' = Append(teardown, "ad")
  /\ UNCHANGED <<config, resolver, cursors, comp_pad, live_pads, ad_running,
                 bus_watch, timer, operator, main_pipeline, appsrc,
                 retry_count, running, stream_pc, idle_fires, tracked, relay,
                 history>>

\* ------------------------------------------------------ streaming thread
\* the buffer of a sample pulled from the ad pipeline's appsink
AdSample == [pts |-> 40, dts |-> 40, duration |-> 33]

\* the flag the sample callback reads: self.ad_running, in Overlay self.running
RelayFlag == IF cls = "Overlay" THEN running ELSE ad_running

\* buf.pts = buf.dts = buf.duration = Gst.CLOCK_TIME_NONE; HLSWithOverlay
\* pushes the buffer as it is
strip_timestamps(buf) ==
  IF cls = "Overlay" THEN buf
  ELSE [pts |-> CLOCK_TIME_NONE, dts |-> CLOCK_TIME_NONE,
        duration |-> CLOCK_TIME_NONE]

\* _on_new_ad_sample, first statement: return at once unless the flag is set
\* and appsrc is there
on_new_ad_sample_check ==
  /\ ad_pipeline = "PLAYING"
  /\ stream_pc = "idle"
  /\ IF ~RelayFlag \/ appsrc = None
     THEN /\ relay' = [NoRelay EXCEPT !.outcome = "discard"]
          /\ stream_pc' = "idle"
     ELSE /\ stream_pc' = "checked"
          /\ relay' = relay
  /\ UNCHANGED <<config, resolver, cursors, slot, timer, operator,
                 main_pipeline, appsrc, retry_count, running, pc, idle_fires,
                 tracked, history, teardown>>

\* faulty variant: a push that appsrc rejects clears the relay flag
on_new_ad_sample_push_stops(sample) ==
  /\ stream_pc = "checked"
  /\ stream_pc' = "idle"
  /\ IF sample = None
     THEN relay' = relay /\ ad_running' = ad_running
     ELSE LET buf == strip_timestamps(AdSample)
          IN  /\ relay' = [outcome |-> "push", flag |-> RelayFlag,
                           port |-> comp_pad.pad,
                           ret |-> IF main_pipeline = "PLAYING" THEN "OK"
                                   ELSE "FLUSHING",
                           pts |-> buf.pts, dts |-> buf.dts,
                           duration |-> buf.duration]
              /\ ad_running' = IF main_pipeline = "PLAYING" THEN ad_running
                               ELSE FALSE
  /\ UNCHANGED <<config, resolver, cursors, comp_pad, live_pads, ad_pipeline,
                 bus_watch, timer, operator, main_pipeline, appsrc,
                 retry_count, running, pc, idle_fires, tracked, history,
                 teardown>>

\* _on_new_ad_sample, the rest: pull the sample (None when the appsink has
\* none), clear its timestamps, push the buffer into appsrc; relay records the
\* flag and the pad as they are at the push
on_new_ad_sample_push(sample) ==
  /\ stream_pc = "checked"
  /\ stream_pc' = "idle"
  /\ IF sample = None
     THEN relay' = relay
     ELSE LET buf == strip_timestamps(AdSample)
          IN  relay' = [outcome |-> "push", flag |-> RelayFlag,
                        port |-> comp_pad.pad,
                        ret |-> IF main_pipeline = "PLAYING" THEN "OK"
                                ELSE "FLUSHING",
                        pts |-> buf.pts, dts |-> buf.dts,
                        duration |-> buf.duration]
  /\ UNCHANGED <<config, resolver, cursors, slot, timer, operator,
                 main_pipeline, appsrc, retry_count, running, pc, idle_fires,
                 tracked, history, teardown>>

\* ------------------------------------------------------- operator channel
\* sys.stdin.readline().strip().split() of the lines an operator may type
InputLines ==
  { <<>>, <<"foo">>, <<"pos">>, <<"pos", "auto">>, <<"pos", "auto", "now">>,
    <<"pos", "100", "200">>, <<"pos", "200", "100">>, <<"pos", "abc", "200">>,
    <<"pos", "100", "200", "0">> }

\* faulty variant: the position is set whether a pad is held or not
update_ad_position_unguarded(x, y) ==
  /\ comp_pad' = [comp_pad EXCEPT !.xpos = x, !.ypos = y]
  /\ manual_position' = TRUE
  /\ manual_xy' = <<x, y>>

\* LocalAdCompositor.update_ad_position: ignored when no pad is held
update_ad_position(x, y) ==
  IF ~comp_pad.pad
  THEN UNCHANGED <<comp_pad, manual_position, manual_xy>>
  ELSE /\ comp_pad' = [comp_pad EXCEPT !.xpos = x, !.ypos = y]
       /\ manual_position' = TRUE
       /\ manual_xy' = <<x, y>>

\* is parts a line `pos <x> <y>` with two integers
IsPosXY(parts) ==
  /\ Len(parts) = 3
  /\ parts[1] = "pos"
  /\ parts[2] \in DOMAIN IntTable
  /\ parts[3] \in DOMAIN IntTable

\* faulty variant: `pos auto` is ignored, like `pos <x> <y>`, when no pad is
\* held
on_stdin_input_auto_needs_pad(parts) ==
  /\ pc = "loop"
  /\ cls = "Local"
  /\ IF parts # <<>> /\ parts[1] = "pos" /\ Len(parts) >= 2
     THEN IF parts[2] = "auto"
          THEN /\ manual_position' = IF comp_pad.pad THEN FALSE
                                     ELSE manual_position
               /\ UNCHANGED <<comp_pad, manual_xy>>
          ELSE IF Len(parts) = 3 /\ parts[2] \in DOMAIN IntTable
                                 /\ parts[3] \in DOMAIN IntTable
               THEN update_ad_position(IntTable[parts[2]], IntTable[parts[3]])
               ELSE UNCHANGED <<comp_pad, manual_position, manual_xy>>
     ELSE UNCHANGED <<comp_pad, manual_position, manual_xy>>
  /\ commanded' =
       IF IsPosXY(parts) THEN <<IntTable[parts[2]], IntTable[parts[3]]>>
       ELSE IF Len(parts) >= 2 /\ parts[1] = "pos" /\ parts[2] = "auto" THEN <<>>
       ELSE commanded
  /\ UNCHANGED <<config, resolver, cursors, live_pads, ad_running,
                 ad_pipeline, bus_watch, timer, main_pipeline, appsrc,
                 retry_count, running, pc, stream_pc, idle_fires, tracked,
                 relay, history, teardown>>

\* faulty variant: a `pos <x> <y>` that moves the pad also advances the
\* position cursor
on_stdin_input_pos_advances(parts) ==
  /\ pc = "loop"
  /\ cls = "Local"
  /\ IF parts # <<>> /\ parts[1] = "pos" /\ Len(parts) >= 2
     THEN IF parts[2] = "auto"
          THEN /\ manual_position' = FALSE
               /\ UNCHANGED <<comp_pad, manual_xy>>
          ELSE IF Len(parts) = 3 /\ parts[2] \in DOMAIN IntTable
                                 /\ parts[3] \in DOMAIN IntTable
               THEN update_ad_position(IntTable[parts[2]], IntTable[parts[3]])
               ELSE UNCHANGED <<comp_pad, manual_position, manual_xy>>
     ELSE UNCHANGED <<comp_pad, manual_position, manual_xy>>
  /\ pos_index' = IF IsPosXY(parts) /\ comp_pad.pad
                  THEN next_pos_index(pos_index, Len(ad_positions))
                  ELSE pos_index
  /\ commanded' =
       IF IsPosXY(parts) THEN <<IntTable[parts[2]], IntTable[parts[3]]>>
       ELSE IF Len(parts) >= 2 /\ parts[1] = "pos" /\ parts[2] = "auto" THEN <<>>
       ELSE commanded
  /\ UNCHANGED <<config, resolver, ad_index, ad_url, impression_urls,
                 live_pads, ad_running, ad_pipeline, bus_watch, timer,
                 main_pipeline, appsrc, retry_count, running, pc, stream_pc,
                 idle_fires, tracked, relay, history, teardown>>

\* LocalAdCompositor._on_stdin_input on the line split into parts; commanded
\* keeps the last `pos <x> <y>` read since the last `pos auto`
on_stdin_input(parts) ==
  /\ pc = "loop"
  /\ cls = "Local"
  /\ IF parts # <<>> /\ parts[1] = "pos" /\ Len(parts) >= 2
     THEN IF parts[2] = "auto"
          THEN /\ manual_position' = FALSE
               /\ UNCHANGED <<comp_pad, manual_xy>>
          ELSE IF Len(parts) = 3 /\ parts[2] \in DOMAIN IntTable
                                 /\ parts[3] \in DOMAIN IntTable
               THEN update_ad_position(IntTable[parts[2]], IntTable[parts[3]])
               ELSE UNCHANGED <<comp_pad, manual_position, manual_xy>>
     ELSE UNCHANGED <<comp_pad, manual_position, manual_xy>>
  /\ commanded' =
       IF IsPosXY(parts) THEN <<IntTable[parts[2]], IntTable[parts[3]]>>
       ELSE IF Len(parts) >= 2 /\ parts[1] = "pos" /\ parts[2] = "auto" THEN <<>>
       ELSE commanded
  /\ UNCHANGED <<config, resolver, cursors, live_pads, ad_running,
                 ad_pipeline, bus_watch, timer, main_pipeline, appsrc,
                 retry_count, running, pc, stream_pc, idle_fires, tracked,
                 relay, history, teardown>>

\* --------------------------------------------------------------- tracking
\* the main loop runs the idle callback _fire of _fire_tracking_url, which
\* enters urllib.request.urlopen(url): the main thread is inside that call
\* (pc = "tracking") until the request has an outcome.  The source is not
\* called again, _fire returning False.
fire_tracking_url ==
  /\ pc = "loop"
  /\ idle_fires # <<>>
  /\ idle_fires' = Tail(idle_fires)
  /\ tracked' = tracked
  /\ pc' = "tracking"
  /\ UNCHANGED <<config, resolver, cursors, slot, timer, operator,
                 main_pipeline, appsrc, retry_count, running, stream_pc, relay,
                 history, teardown>>

\* urlopen returns the response or raises
TrackingOutcomes == {"fired", "failed"}

\* faulty variant: a failed tracking request is counted as a failure of the ad
fire_tracking_url_done_counts(outcome) ==
  /\ pc = "tracking"
  /\ tracked' = outcome
  /\ retry_count' = IF outcome = "failed" /\ retry_count < MaxRetry
                    THEN retry_count + 1 ELSE retry_count
  /\ pc' = "loop"
  /\ UNCHANGED <<config, resolver, cursors, slot, timer, operator,
                 main_pipeline, appsrc, running, stream_pc, idle_fires, relay,
                 history, teardown>>

\* the request of _fire has its outcome: either way a line is logged and
\* control returns to the main loop
fire_tracking_url_done(outcome) ==
  /\ pc = "tracking"
  /\ tracked' = outcome
  /\ pc' = "loop"
  /\ UNCHANGED <<config, resolver, cursors, slot, timer, operator,
                 main_pipeline, appsrc, retry_count, running, stream_pc,
                 idle_fires, relay, history, teardown>>

\* ------------------------------------------------------------------- next
Next ==
  \/ run
  \/ Overlay_run
  \/ Overlay_start_main
  \/ timer_fires
  \/ \E type \in AdMessageTypes : on_ad_message(type)
  \/ stop_ad_pipeline_done
  \/ \E msg \in MainMessages : on_main_message(msg)
  \/ keyboard_interrupt
  \/ finally_flag
  \/ finally_main
  \/ finally_ad
  \/ on_new_ad_sample_check
  \/ \E sample \in {None, "sample"} : on_new_ad_sample_push(sample)
  \/ \E parts \in InputLines : on_stdin_input(parts)
  \/ fire_tracking_url
  \/ \E outcome \in TrackingOutcomes : fire_tracking_url_done(outcome)

Spec == Init /\ [][Next]_vars

\* the scheduling the run time gives: the GLib main loop dispatches a timeout
\* source that stays ready, set_state(NULL) returns once the streaming thread
\* is out of the callback, and the streaming thread finishes a callback it
\* has entered.  Nothing makes urlopen return: it is called with no timeout.
FairSpec ==
  /\ Spec
  /\ WF_vars(timer_fires)
  /\ WF_vars(stop_ad_pipeline_done)
  /\ WF_vars(\E sample \in {None, "sample"} : on_new_ad_sample_push(sample))

\* ------------------------------------------------- the resolver on its own
\* an object with a tag configured, before run(), and the response its next
\* fetch will get
VastInit ==
  /\ cls \in {"Shared", "Local"}
  /\ vast_url = "tag"
  /\ ad_urls = <<>>
  /\ ad_positions = DefaultPositions
  /\ ad_url = None
  /\ ad_index = 0
  /\ pos_index = 0
  /\ main_pipeline = None
  /\ ad_pipeline = None
  /\ appsrc = None
  /\ comp_pad = NoPad
  /\ ad_running = FALSE
  /\ restart_timer_id = None
  /\ retry_count = 0
  /\ impression_urls = <<>>
  /\ manual_position = FALSE
  /\ running = TRUE
  /\ pc = "init"
  /\ stream_pc = "idle"
  /\ live_pads = 0
  /\ timers = 0
  /\ bus_watch = FALSE
  /\ idle_fires = <<>>
  /\ tracked = "none"
  /\ relay = NoRelay
  /\ history = <<>>
  /\ manual_xy = <<0, 0>>
  /\ commanded = <<>>
  /\ teardown = <<>>
  /\ vast_response \in Documents
  /\ vast_returned = NotCalled

\* one call of self._fetch_vast_media_url()
fetch_vast_media_url ==
  /\ vast_returned = NotCalled
  /\ LET fetched == IF cls = "Shared"
                    THEN Shared_fetch_vast_media_url(vast_response)
                    ELSE Local_fetch_vast_media_url(vast_response)
     IN  /\ vast_returned' = fetched.url
         /\ impression_urls' = fetched.impressions
  /\ UNCHANGED <<config, slot, timer, operator, vast_response, ad_index,
                 pos_index, ad_url, main_pipeline, appsrc, retry_count,
                 running, pc, stream_pc, idle_fires, tracked, relay, history,
                 teardown>>

VastNext == fetch_vast_media_url

VastSpec == VastInit /\ [][VastNext]_vars

\* --------------------------------------------- the methods called directly
\* a direct call of self._restart_ad(), whatever the slot holds
call_restart_ad ==
  /\ pc = "loop"
  /\ cls \in SlotClasses
  /\ restart_ad(timers)
  /\ UNCHANGED <<config, main_pipeline, appsrc, retry_count, running, pc,
                 stream_pc, relay, teardown>>

\* a direct call of self._stop_ad_pipeline(), whatever the slot holds, with
\* the streaming thread outside the sample callback
call_stop_ad_pipeline ==
  /\ pc = "loop"
  /\ cls \in SlotClasses
  /\ stop_ad_pipeline_pad
  /\ ad_pipeline' = None
  /\ UNCHANGED <<config, resolver, cursors, bus_watch, timer, operator,
                 main_pipeline, appsrc, retry_count, running, pc, stream_pc,
                 idle_fires, tracked, relay, history, teardown>>

CallNext ==
  \/ run
  \/ call_restart_ad
  \/ call_stop_ad_pipeline

CallSpec == Init /\ [][CallNext]_vars

\* ------------------------------------------------------------ properties
ShutdownPcs == FinallyPcs \cup {"done", "raised"}
\* the cycles of the history that were started, in order
Started == SelectSeq(history, LAMBDA a : a.started)

\* C1 (single-port invariant): a slot holds at most one request pad at any
\* instant, self.comp_pad is that pad, exactly one pad is held while
\* ad_running is true, and a pad is requested only when none is held, so a
\* release comes between any two acquires.
C1_SinglePort ==
  /\ [](cls \in SlotClasses =>
          /\ live_pads <= 1
          /\ comp_pad.pad <=> live_pads = 1
          /\ ad_running => live_pads = 1)
  /\ [][live_pads' > live_pads => live_pads = 0 /\ live_pads' = 1]_vars

\* a second cycle is playing, after an ad error ended an earlier one
C1_Witness ==
  /\ cls = "Shared"
  /\ Len(Started) >= 2
  /\ retry_count >= 1
  /\ ad_running
  /\ live_pads = 1

\* C2 (timer de-duplication): at most one cooldown timeout is pending and
\* restart_timer_id is set exactly while it is; _restart_ad runs only from
\* run() or from the pending timeout, once per firing, and a firing removes
\* the source it came from.
C2_TimerDedup ==
  /\ [](timers <= 1 /\ (restart_timer_id # None <=> timers = 1))
  /\ [][Len(history') # Len(history) =>
          /\ Len(history') = Len(history) + 1
          /\ pc = "init" \/ timers = 1
          /\ pc = "loop" => timer_fires]_vars
  /\ [][timer_fires /\ Len(Started') > Len(Started) => timers' = 0]_vars

\* two ad errors (retry_count = 2) within the one cycle started so far, and
\* one timeout pending
C2_Witness ==
  /\ Len(history) = 1
  /\ retry_count = 2
  /\ timers = 1
  /\ restart_timer_id # None

C4_ShutdownFlagOrdering ==
  /\ [](main_pipeline = "NULL" \/ ad_pipeline = "NULL" => ~RelayFlag)
  /\ [][(pc \in ShutdownPcs /\ on_new_ad_sample_push("sample")) => (RelayFlag = TRUE)]_vars
  /\ [][live_pads' > live_pads => pc \notin ShutdownPcs]_vars

\* C5 (relay discard under race): every buffer pushed into appsrc by the
\* sample callback of a slot is pushed while ad_running is true and the
\* request pad is held.
C5_RelayDiscard ==
  cls \in SlotClasses /\ relay.outcome = "push" => relay.flag /\ relay.port

\* C6 (shutdown teardown): when shutdown has completed the request pad has
\* been released, and the ad pipeline was stopped before the main pipeline.
C6_ShutdownTeardown ==
  pc = "done" =>
    /\ live_pads = 0
    /\ \A i, j \in DOMAIN teardown :
         teardown[i] = "ad" /\ teardown[j] = "main" => i < j

\* C7 (pool round-robin): with a pool of k >= 1 URLs as the source, the i-th
\* call of _restart_ad resolves pool[(i-1) mod k], whatever ended the cycles
\* in between.
C7_PoolRoundRobin ==
  cls \in {"Shared", "Local"} /\ vast_url = None /\ ad_urls # <<>> =>
    \A i \in DOMAIN history :
      history[i].url = ad_urls[((i - 1) % Len(ad_urls)) + 1]

\* a pool of three, a fourth call that resolves the first entry again, with
\* an ad error in between
C7_Witness ==
  /\ vast_url = None
  /\ Len(ad_urls) = 3
  /\ Len(history) = 4
  /\ history[4].url = "A"
  /\ retry_count >= 1

\* C8 (position rotation): as long as no cycle was started under the manual
\* override, the j-th started cycle is placed at positions[(j-1) mod n].
C8_PositionRotation ==
  cls \in {"Shared", "Local"}
  /\ (\A i \in DOMAIN history : ~history[i].manual) =>
    \A j \in DOMAIN Started :
      Started[j].pos = ad_positions[((j - 1) % Len(ad_positions)) + 1]

\* five cycles over the four corners
C8_Witness ==
  /\ ad_positions = Corners
  /\ Len(Started) = 5
  /\ \A i \in DOMAIN history : ~history[i].manual
  /\ [j \in 1..5 |-> Started[j].pos] =
       << <<920, 500>>, <<40, 500>>, <<40, 40>>, <<920, 40>>, <<920, 500>> >>

\* C9 (manual override pins position): while the manual override is set,
\* the pad of the playing ad is at the (x, y) the operator gave last.
C9_ManualPins ==
  manual_position /\ comp_pad.pad => <<comp_pad.xpos, comp_pad.ypos>> = manual_xy

\* the started cycles before the i-th attempt that took their position from
\* the rotation
AutoBefore(i) ==
  Cardinality({j \in 1..(i - 1) : history[j].started /\ ~history[j].manual})

\* C10 (clearing the override resumes rotation): a cycle started under the
\* override leaves pos_index alone, so every cycle placed from the rotation
\* gets the position after the one the last such cycle got, and pos_index
\* counts those cycles only.
C10_ResumeRotation ==
  cls = "Local" =>
    /\ \A i \in DOMAIN history :
         history[i].started /\ ~history[i].manual =>
           history[i].pos = ad_positions[(AutoBefore(i) % Len(ad_positions)) + 1]
    /\ pos_index = AutoBefore(Len(history) + 1) % Len(ad_positions)

\* a cycle from the rotation, a cycle under the override, the override
\* cleared, and a cycle that takes the second position of the rotation
C10_Witness ==
  /\ cls = "Local"
  /\ ad_positions = Corners
  /\ Len(history) = 3
  /\ history[1].started /\ ~history[1].manual
  /\ history[2].started /\ history[2].manual
  /\ history[3].started /\ ~history[3].manual
  /\ history[3].pos = <<40, 500>>

\* the places of the video/mp4 elements of `media` whose bitrate is under
\* the ceiling
Candidates(media) ==
  {i \in DOMAIN media : /\ media[i].type = "video/mp4"
                        /\ ~BitrateRaises(media[i])
                        /\ BitrateOf(media[i]) < BitrateCeiling}

\* C11 (remote-tag selection): whenever _fetch_vast_media_url returns a URL,
\* it is the stripped text of a video/mp4 MediaFile whose bitrate is the
\* highest among the video/mp4 elements with a bitrate under 5000, and of the
\* elements with that bitrate it is the first in document order.
C11_RemoteTagSelection ==
  vast_returned # NotCalled /\ Truthy(vast_returned) =>
    LET media == vast_response.media
    IN  \E i \in Candidates(media) :
          /\ media[i].text # None
          /\ Strip(media[i].text) = vast_returned
          /\ \A j \in Candidates(media) :
               /\ BitrateOf(media[j]) <= BitrateOf(media[i])
               /\ BitrateOf(media[j]) = BitrateOf(media[i]) => i <= j

\* candidates of 4000, 6000 and 3000 kbps: the 4000 one is returned
C11_Witness ==
  /\ Len(vast_response.media) = 3
  /\ \A i \in 1..3 : /\ vast_response.media[i].type = "video/mp4"
                      /\ vast_response.media[i].text = PaddedTexts[i]
  /\ [i \in 1..3 |-> vast_response.media[i].bitrate] = <<"4000", "6000", "3000">>
  /\ vast_returned = "m1"

\* a document every video/mp4 element of which has an integer (or no)
\* bitrate and a URL as its text
WellFormed(resp) ==
  /\ resp.status = "ok"
  /\ \A i \in DOMAIN resp.media :
       resp.media[i].type = "video/mp4" =>
         /\ ~BitrateRaises(resp.media[i])
         /\ Truthy(resp.media[i].text)
         /\ Truthy(Strip(resp.media[i].text))

\* C12 (remote-tag None result): a failed fetch and a body that does not
\* parse give None, and a well-formed document gives None exactly when no
\* video/mp4 element has a bitrate under 5000: one with such an element, be
\* its bitrate 0 or absent, gives a URL.
C12_NoneResult ==
  vast_returned # NotCalled =>
    /\ vast_response.status # "ok" => vast_returned = None
    /\ WellFormed(vast_response) =>
         (vast_returned = None <=> Candidates(vast_response.media) = {})

\* C13 (failed source resolution): a _restart_ad call whose source yields no
\* URL (empty pool, no source, or the tag resolver returning None) starts no
\* cycle; it requests no pad, creates no ad pipeline, leaves ad_running
\* false and leaves exactly one cooldown timeout pending.
C13_FailedResolution ==
  /\ [](cls \in SlotClasses =>
          \A i \in DOMAIN history : history[i].started <=> Truthy(history[i].url))
  /\ [][Len(history') > Len(history) /\ ~history'[Len(history')].started =>
          /\ comp_pad' = NoPad
          /\ live_pads' = 0
          /\ ad_pipeline' = None
          /\ ~ad_running'
          /\ timers' = 1
          /\ restart_timer_id' # None]_vars

\* an ad was played, and the next call got no URL from the tag: the slot is
\* empty and the retry is pending
C13_Witness ==
  /\ vast_url # None
  /\ Len(history) = 2
  /\ history[1].started
  /\ ~history[2].started
  /\ vast_response.status = "ok"
  /\ comp_pad = NoPad
  /\ ad_pipeline = None
  /\ ~ad_running
  /\ timers = 1

\* C16 (tracking dispatch is non-blocking): while the request of a tracking
\* URL is outstanding the main loop can take the slot's events: a pending
\* cooldown timeout can fire and a message of the ad pipeline can be handled.
C16_TrackingNonBlocking ==
  pc = "tracking" =>
    /\ timers > 0 /\ Len(history) < MaxCycles => ENABLED timer_fires
    /\ bus_watch => ENABLED on_ad_message("EOS")

\* C14 (sub-pipeline error handling): an ERROR message of the ad pipeline
\* handled while the ad is playing adds one to retry_count, releases the pad,
\* clears ad_running and leaves the main loop running; once the ad pipeline
\* is stopped it is dropped and one cooldown timeout is pending.
C14_SubPipelineError ==
  /\ [][on_ad_message("ERROR") /\ ad_running =>
          /\ retry_count' = retry_count + 1
          /\ comp_pad' = NoPad
          /\ live_pads' = 0
          /\ ~ad_running'
          /\ pc' \in {"loop", "stopping"}
          /\ main_pipeline' = main_pipeline]_vars
  /\ [][stop_ad_pipeline_done =>
          ad_pipeline' = None /\ timers' = 1 /\ pc' = "loop"]_vars

\* C15 (unbounded retry): whenever the slot is empty after an end of media,
\* an ad error or a failed source resolution, and the program is not shutting
\* down, _restart_ad is called again, whatever retry_count is.
C15_UnboundedRetry ==
  \A n \in 1..(MaxCycles - 1) :
    (/\ cls \in SlotClasses
     /\ pc \in {"loop", "stopping", "tracking"}
     /\ ~ad_running
     /\ Len(history) = n)
      ~> (Len(history) > n \/ pc \in ShutdownPcs)

\* C17 (tracking failures are contained): the main loop enters a tracking
\* request only by taking one pending idle source, which is removed for good,
\* and when the request ends, failed or not, the handler returns to the loop
\* having changed nothing of the slot: pad, ad pipeline, ad_running, timer,
\* cursors, retry_count, the pending sources and the main pipeline are as
\* they were.
C17_TrackingContained ==
  /\ [][pc # "tracking" /\ pc' = "tracking" =>
          Len(idle_fires') = Len(idle_fires) - 1]_vars
  /\ [][pc = "tracking" /\ pc' # "tracking" =>
          /\ pc' = "loop"
          /\ UNCHANGED <<slot, timer, cursors, retry_count, idle_fires,
                         history, main_pipeline>>]_vars

\* a tracking request has failed while the ad it belongs to plays on
C17_Witness ==
  /\ tracked = "failed"
  /\ pc = "loop"
  /\ ad_running
  /\ ad_pipeline = "PLAYING"
  /\ idle_fires = <<>>
  /\ retry_count = 0
  /\ timers = 0

\* C18 (impression timing): a _restart_ad call of DecoupledAdCompositor
\* queues one tracking request for every impression URL of the document it
\* has fetched itself, in the step that starts the ad pipeline, and none when
\* it starts no cycle or fetches no document; tracking requests are queued
\* nowhere else, so none is made before the ad pipeline was started.
C18_ImpressionTiming ==
  /\ [][cls = "Shared" /\ Len(history') > Len(history) =>
          idle_fires' = idle_fires \o
            (IF history'[Len(history')].started /\ vast_url # None
             THEN ImpressionTexts(vast_response'.impressions)
             ELSE <<>>)]_vars
  /\ [][Len(idle_fires') > Len(idle_fires) =>
          /\ Len(Started') > Len(Started)
          /\ ad_pipeline' = "PLAYING"
          /\ ad_running']_vars

\* the second ad of a tag is playing: the impression of the first was
\* requested, the one of the second is queued once
C18_Witness ==
  /\ cls = "Shared"
  /\ vast_url # None
  /\ Len(Started) = 2
  /\ ad_running
  /\ tracked = "fired"
  /\ impression_urls = <<"i1">>
  /\ idle_fires = <<"i1">>

\* C19 (tracking on completion): when the handling of an end of media or an
\* ad error arms the cooldown timeout, the pad is released, the ad pipeline
\* is dropped and no tracking request is still pending.
C19_TrackingOnCompletion ==
  [][timers' > timers /\ Len(history') = Len(history) =>
       /\ comp_pad' = NoPad
       /\ ad_pipeline' = None
       /\ idle_fires' = <<>>]_vars

\* C20 (operator command `pos <x> <y>`, as claimed): after a line
\* `pos <x> <y>` with two integers, and until `pos auto`, the manual override
\* is set, whatever state the slot was in when the line was read.
C20_PosSetsOverride ==
  commanded # <<>> => manual_position

\* C20 (as amended): a line `pos <x> <y>` with two integers read while a pad
\* is held moves that pad to (x, y) and sets manual_position; read while no
\* pad is held it changes neither the pad nor manual_position.
C20_PosWhilePadHeld ==
  [][\A parts \in InputLines :
       IsPosXY(parts) /\ on_stdin_input(parts) =>
         IF comp_pad.pad
         THEN /\ manual_position'
              /\ comp_pad' = [pad |-> TRUE, xpos |-> IntTable[parts[2]],
                                            ypos |-> IntTable[parts[3]]]
         ELSE UNCHANGED <<comp_pad, manual_position>>]_vars

\* `pos 100 200` was read during a cooldown and ignored
C20_Witness ==
  /\ cls = "Local"
  /\ commanded = <<100, 200>>
  /\ Len(Started) >= 1
  /\ comp_pad = NoPad
  /\ timers = 1
  /\ ~manual_position

\* the lines the usage text of _on_stdin_input does not name: neither
\* `pos auto` nor `pos <x> <y>` with two integers
Malformed(parts) ==
  /\ parts # <<"pos", "auto">>
  /\ ~IsPosXY(parts)

\* C21 (malformed operator input): reading an empty line, an unknown
\* command, `pos` with a wrong number of arguments or `pos` with coordinates
\* that are not integers changes neither manual_position, nor pos_index, nor
\* the held pad and its position, nor the state of the slot.
C21_MalformedIgnored ==
  [][\A parts \in InputLines :
       Malformed(parts) /\ on_stdin_input(parts) =>
         UNCHANGED <<manual_position, pos_index, comp_pad, live_pads,
                     ad_running, ad_pipeline, timer>>]_vars

\* C22 (operator command `pos auto`): once `pos auto` was read, in whatever
\* state of the slot, and until the next `pos <x> <y>`, manual_position is
\* false; reading it changes neither pos_index nor the held pad; and a cycle
\* started with manual_position false is placed at the entry of
\* ad_positions that pos_index names.
C22_PosAuto ==
  /\ [](cls = "Local" /\ commanded = <<>> => ~manual_position)
  /\ [][on_stdin_input(<<"pos", "auto">>) =>
          UNCHANGED <<pos_index, comp_pad, live_pads>>]_vars
  /\ [][cls = "Local" /\ Len(Started') > Len(Started) /\ ~manual_position =>
          /\ ~history'[Len(history')].manual
          /\ history'[Len(history')].pos = ad_positions[pos_index + 1]
          /\ comp_pad'.xpos = ad_positions[pos_index + 1][1]
          /\ comp_pad'.ypos = ad_positions[pos_index + 1][2]]_vars

\* the first ad was moved to (100, 200), `pos auto` was read during the
\* cooldown, and the second ad is at the second position of the rotation
C22_Witness ==
  /\ cls = "Local"
  /\ Len(ad_positions) >= 2
  /\ manual_xy = <<100, 200>>
  /\ commanded = <<>>
  /\ ~manual_position
  /\ Len(history) = 2
  /\ history[2].started
  /\ ~history[2].manual
  /\ history[2].pos = ad_positions[2]
  /\ comp_pad = [pad |-> TRUE, xpos |-> ad_positions[2][1],
                               ypos |-> ad_positions[2][2]]

\* C23 (port lifecycle violations): _restart_ad called while a pad is held
\* requests no second pad and leaves the held one in place, and
\* _stop_ad_pipeline called while no pad is held releases nothing and
\* changes neither the timer, nor the cursors, nor retry_count.
C23_LifecycleNoOps ==
  /\ [][comp_pad.pad /\ call_restart_ad =>
          live_pads' = live_pads /\ comp_pad' = comp_pad]_vars
  /\ [][~comp_pad.pad /\ call_stop_ad_pipeline =>
          /\ live_pads' = live_pads
          /\ comp_pad' = NoPad
          /\ UNCHANGED <<timer, cursors, retry_count>>]_vars

\* the ERROR messages of the main pipeline the handler of this variant does
\* not take for the transient "Quit requested" of the video sink
FatalErrors ==
  {msg \in MainMessages :
     /\ msg.type = "ERROR"
     /\ cls = "Overlay" \/ msg.text # "Quit requested"}

C25_TimestampStripping ==
  relay.outcome = "push" =>
    /\ relay.pts = CLOCK_TIME_NONE
    /\ relay.dts = CLOCK_TIME_NONE
    /\ relay.duration = CLOCK_TIME_NONE

\* C26 (relay frame): a step of the sample callback, the one that checks the
\* flag and the one that pulls and pushes, whether appsrc takes the buffer
\* or rejects it, changes nothing but the callback's own position and the
\* record of the push: the pad, the count of live pads, the ad pipeline,
\* ad_running, the timer, the cursors and retry_count are as they were.
C26_RelayFrame ==
  [][stream_pc' # stream_pc \/ relay' # relay =>
       UNCHANGED <<comp_pad, live_pads, ad_pipeline, ad_running, bus_watch,
                   timer, cursors, retry_count, manual_position, history,
                   pc>>]_vars

\* the main pipeline was stopped with an ad playing, and a buffer pushed
\* after that was rejected: pad, ad pipeline and flag are still there
C26_Witness ==
  /\ cls \in SlotClasses
  /\ relay.outcome = "push"
  /\ relay.ret = "FLUSHING"
  /\ stream_pc = "idle"
  /\ comp_pad.pad
  /\ ad_pipeline = "PLAYING"
  /\ ad_running
  /\ retry_count = 0

\* C27 (start-up): before run() no cycle was attempted and no timeout is
\* armed; the step that takes a compositor variant into the main loop sets
\* the main pipeline PLAYING and makes the first _restart_ad call itself,
\* with no timeout armed when the cycle starts; every later _restart_ad call
\* is the cooldown timeout firing in the main loop.
C27_StartUp ==
  /\ [](pc = "init" =>
          history = <<>> /\ timers = 0 /\ restart_timer_id = None)
  /\ [][pc = "init" /\ pc' # "init" /\ cls \in SlotClasses =>
          /\ pc' = "loop"
          /\ main_pipeline' = "PLAYING"
          /\ Len(history') = 1
          /\ (history'[1].started =>
                (/\ timers' = 0
                 /\ restart_timer_id' = None
                 /\ ad_running'
                 /\ ad_pipeline' = "PLAYING"))]_vars
  /\ [][Len(history) >= 1 /\ Len(history') > Len(history) =>
          /\ pc = "loop"
          /\ restart_timer_id # None
          /\ timers' = timers - 1 + (IF history'[Len(history')].started
                                     THEN 0 ELSE 1)]_vars

\* the first ad started with run(), ended, and the timeout started the
\* second
C27_Witness ==
  /\ cls = "Shared"
  /\ vast_url = None
  /\ Len(history) = 2
  /\ history[1].started
  /\ history[2].started
  /\ ad_running
  /\ timers = 0
  /\ restart_timer_id = None
  /\ retry_count = 0
  /\ pc = "loop"

\* C28 (teardown completeness and order): while the handler of an EOS or
\* ERROR of the ad pipeline waits in set_state(NULL), the relay flag is
\* already false and the pad already released, the ad pipeline is still held
\* and no timeout is armed yet; the timeout is armed by the step that drops
\* the ad pipeline or after it; so whenever a timeout is pending the slot
\* holds no pad and no ad pipeline and the relay flag is false.
C28_TeardownOrder ==
  /\ [](pc = "stopping" =>
          /\ ~ad_running
          /\ comp_pad = NoPad
          /\ live_pads = 0
          /\ ad_pipeline # None
          /\ timers = 0
          /\ restart_timer_id = None)
  /\ [][timers' > timers /\ Len(history') = Len(history) =>
          /\ ~ad_running /\ ~ad_running'
          /\ comp_pad = NoPad /\ comp_pad' = NoPad
          /\ ad_pipeline' = None]_vars
  /\ [](timers > 0 =>
          /\ comp_pad = NoPad
          /\ live_pads = 0
          /\ ad_pipeline = None
          /\ ~ad_running)

\* the one ad of the single-URL variant failed: the slot is empty, the
\* timeout is pending
C28_Witness ==
  /\ cls = "Loop"
  /\ pc = "loop"
  /\ Len(history) = 1
  /\ retry_count = 1
  /\ timers = 1
  /\ restart_timer_id # None
  /\ comp_pad = NoPad
  /\ ad_pipeline = None
  /\ ~ad_running

\* C29 (resource ownership matches state): in a compositor variant, before
\* run(), between two handlers of the main loop and inside a tracking
\* request, ad_running is true exactly when a pad is held, and exactly when
\* an ad pipeline is held.
C29_OwnershipMatchesState ==
  cls \in SlotClasses /\ pc \in {"init", "loop", "tracking"} =>
    /\ ad_running <=> comp_pad.pad
    /\ ad_running <=> ad_pipeline # None
    /\ ad_running <=> live_pads = 1

\* after an ad and a resolution that failed, the next ad plays: flag, pad
\* and ad pipeline are all there
C29_Witness ==
  /\ cls = "Local"
  /\ pc = "loop"
  /\ Len(history) = 3
  /\ history[1].started
  /\ ~history[2].started
  /\ history[3].started
  /\ ad_running
  /\ comp_pad.pad
  /\ ad_pipeline = "PLAYING"
  /\ live_pads = 1

\* the message on_ad_message hands over comes from the bus of an ad pipeline
\* that was discarded: every ad pipeline's bus is connected to the same bound
\* method, which reads neither its bus argument nor msg.src, so the handler
\* does what it does for a message of the pipeline now held
on_discarded_ad_message(type) ==
  /\ Len(Started) > (IF ad_pipeline = None THEN 0 ELSE 1)
  /\ on_ad_message(type)

\* C30 (notifications are scoped to their cycle): an EOS or ERROR of an ad
\* pipeline that was discarded, handled while a later ad is playing, leaves
\* the pad, the ad pipeline and ad_running of that ad as they are.
C30_ScopedNotifications ==
  [][\A type \in {"EOS", "ERROR"} :
       ad_running /\ on_discarded_ad_message(type) =>
         UNCHANGED <<comp_pad, live_pads, ad_pipeline, ad_running>>]_vars

\* C31 (no stuck state): in a compositor variant, between two handlers of
\* the main loop and inside a tracking request, either an ad is playing (pad
\* and ad pipeline held, flag set, no timeout pending) or the slot is empty
\* with exactly one cooldown timeout pending.
C31_NoStuckState ==
  cls \in SlotClasses /\ pc \in {"loop", "tracking"} =>
    \/ /\ ad_running
       /\ comp_pad.pad
       /\ ad_pipeline = "PLAYING"
       /\ timers = 0
    \/ /\ ~ad_running
       /\ comp_pad = NoPad
       /\ ad_pipeline = None
       /\ timers = 1
       /\ restart_timer_id # None

\* the tag gave no URL twice in a row: after the second failed call the
\* retry is armed again
C31_Witness ==
  /\ cls = "Local"
  /\ vast_url # None
  /\ pc = "loop"
  /\ Len(history) = 2
  /\ ~history[1].started
  /\ ~history[2].started
  /\ ~ad_running
  /\ timers = 1

\* C32 (shutdown is safe in every state): the finally block of run(), begun
\* in whatever state the slot is in, the cooldown with no pad and no ad
\* pipeline included, never raises.
C32_ShutdownSafe ==
  pc # "raised"

\* C33 (retry_count counts failed cycles): retry_count never decreases, an
\* EOS of the ad pipeline leaves it as it is, and it is at most the number
\* of cycles started, however many ERROR messages of one cycle are handled
\* before the cooldown timeout fires.
C33_RetryCountsCycles ==
  /\ [][retry_count' >= retry_count]_vars
  /\ [][on_ad_message("EOS") => retry_count' = retry_count]_vars
  /\ [](retry_count <= Len(Started))

\* C34 (a failed cycle consumes no position): a _restart_ad call that
\* starts no cycle leaves pos_index and manual_position as they are, so the
\* cycle started next from the rotation is placed where the rotation stood
\* when the call failed.
C34_FailedKeepsPosition ==
  /\ [][Len(history') > Len(history) /\ ~history'[Len(history')].started =>
          UNCHANGED <<pos_index, manual_position>>]_vars
  /\ [](cls \in {"Shared", "Local"} =>
          \A i \in DOMAIN history :
            /\ ~history[i].started =>
                 \A k \in (i + 1)..Len(history) :
                   (/\ history[k].started
                    /\ ~history[k].manual
                    /\ \A j \in (i + 1)..(k - 1) : ~history[j].started) =>
                     history[k].pos =
                       ad_positions[(AutoBefore(i) % Len(ad_positions)) + 1])

\* an ad at the first corner, a resolution that failed, and the next ad at
\* the second corner
C34_Witness ==
  /\ cls = "Shared"
  /\ vast_url # None
  /\ ad_positions = Corners
  /\ Len(history) = 3
  /\ history[1].started /\ history[1].pos = Corners[1]
  /\ ~history[2].started
  /\ history[3].started /\ history[3].pos = Corners[2]
  /\ pos_index = 2

\* C35 (manual reposition of a live ad): a line `pos <x> <y>` with two
\* integers read while a pad is held puts that pad at (x, y) in the same
\* step and leaves pos_index, ad_index, the ad pipeline, ad_running, the
\* count of live pads and the cooldown timer as they are.
C35_RepositionFrame ==
  [][\A parts \in InputLines :
       comp_pad.pad /\ IsPosXY(parts) /\ on_stdin_input(parts) =>
         /\ comp_pad'.pad
         /\ comp_pad'.xpos = IntTable[parts[2]]
         /\ comp_pad'.ypos = IntTable[parts[3]]
         /\ UNCHANGED <<pos_index, ad_index, ad_pipeline, ad_running,
                         live_pads, timer, history>>]_vars

\* the second ad of the rotation was moved to (200, 100) while it plays:
\* the cursor still names the third corner
C35_Witness ==
  /\ cls = "Local"
  /\ ad_positions = Corners
  /\ Len(Started) = 2
  /\ Len(history) = 2
  /\ ~history[2].manual
  /\ ad_running
  /\ ad_pipeline = "PLAYING"
  /\ comp_pad = [pad |-> TRUE, xpos |-> 200, ypos |-> 100]
  /\ manual_position
  /\ pos_index = 2
  /\ timers = 0

\* C36 (cursor bounds): ad_index is a valid index of ad_urls whenever the
\* pool is not empty (and stays 0 when it is), and pos_index is a valid index
\* of ad_positions, which is never empty.
C36_CursorBounds ==
  /\ ad_urls # <<>> => ad_index \in 0..(Len(ad_urls) - 1)
  /\ ad_urls = <<>> => ad_index = 0
  /\ Len(ad_positions) >= 1
  /\ pos_index \in 0..(Len(ad_positions) - 1)

\* three ads of a pool of three over two positions: the pool cursor has
\* wrapped to 0, the position cursor has wrapped and stands at 1
C36_Witness ==
  /\ cls = "Shared"
  /\ Len(ad_urls) = 3
  /\ Len(ad_positions) = 2
  /\ Len(Started) = 3
  /\ ad_index = 0
  /\ pos_index = 1
  /\ ad_url = "C"

\* C37 (the two remote-tag resolvers agree): on every document, what
\* _fetch_vast_media_url of one class returns and the impression_urls it
\* leaves are what the _fetch_vast_media_url of the other class gives on the
\* same document.
C37_ResolversAgree ==
  vast_returned # NotCalled =>
    LET other == IF cls = "Shared"
                 THEN Local_fetch_vast_media_url(vast_response)
                 ELSE Shared_fetch_vast_media_url(vast_response)
    IN  /\ vast_returned = other.url
        /\ impression_urls = other.impressions

====
